---------------------------- MODULE Spec2Model ----------------------------
(***************************************************************************)
(* Booking engine of SalonSync_bot (src/booking_system.py, src/models.py). *)
(*                                                                         *)
(* The store is the PostgreSQL database behind db_config.get_db; every     *)
(* engine call opens its own session, reads committed rows and commits at  *)
(* its db.commit().  Rows are kept in sequences, a row's id being its      *)
(* position.  Time strings "HH:MM" are sequences of one-character strings  *)
(* so that strptime and strftime are modelled by what they do.             *)
(***************************************************************************)
EXTENDS Integers, Sequences, FiniteSets, TLC

VARIABLES clients, services, masters, schedule, bookings, pc, frame, returned

store == <<clients, services, masters, schedule, bookings>>
vars == <<clients, services, masters, schedule, bookings, pc, frame, returned>>

-----------------------------------------------------------------------------
(* Bounds of the model.                                                    *)

\* cap on the number of booking rows ever inserted
MaxBookings == 2

\* the front ends that call the engine concurrently
Callers == {"admin", "bot"}

-----------------------------------------------------------------------------
(* datetime: strptime / strftime with "%H:%M", time arithmetic.            *)

MinutesPerDay == 24 * 60
\* the slot step of get_available_slots
SlotStep == 15

Digits == <<"0", "1", "2", "3", "4", "5", "6", "7", "8", "9">>
IsDigit(c) == \E i \in 1..10 : Digits[i] = c
DigitVal(c) == (CHOOSE i \in 1..10 : Digits[i] = c) - 1

\* value of a string of one or two decimal digits, -1 when it is not one
Number(s) ==
    IF Len(s) = 1 /\ IsDigit(s[1]) THEN DigitVal(s[1])
    ELSE IF Len(s) = 2 /\ IsDigit(s[1]) /\ IsDigit(s[2])
         THEN 10 * DigitVal(s[1]) + DigitVal(s[2])
    ELSE -1

ValueError == -1

\* datetime.strptime(s, "%H:%M"), as minutes since midnight: %H takes one or
\* two digits up to 23, %M one or two digits up to 59, and the whole string
\* must be consumed
strptime(s) ==
    LET seps == {k \in 2..3 : k < Len(s) /\ Len(s) - k <= 2 /\ s[k] = ":"
                              /\ \A j \in 1..(k-1) : s[j] # ":"}
    IN IF seps = {} THEN ValueError
       ELSE LET k == CHOOSE k \in seps : TRUE
                h == Number(SubSeq(s, 1, k - 1))
                m == Number(SubSeq(s, k + 1, Len(s)))
            IN IF h \in 0..23 /\ m \in 0..59 THEN 60 * h + m ELSE ValueError

\* t.strftime("%H:%M") of a time of day given in minutes since midnight
strftime(t) ==
    LET h == t \div 60
        m == t % 60
    IN <<Digits[(h \div 10) + 1], Digits[(h % 10) + 1], ":",
         Digits[(m \div 10) + 1], Digits[(m % 10) + 1]>>

\* (datetime.combine(day, t) + timedelta(minutes = d)).time(): the date part
\* is dropped, so the time of day wraps at midnight
PlusMinutes(t, d) == (t + d) % MinutesPerDay


-----------------------------------------------------------------------------
(* The rows written by BookingSystem._init_services_and_masters on an      *)
(* empty database.                                                         *)

SeedServices ==
    << [name |-> "Zhenskaya strizhka", duration |-> 60,  price |-> 1500],
       [name |-> "Muzhskaya strizhka", duration |-> 30,  price |-> 800],
       [name |-> "Okrashivanie",       duration |-> 120, price |-> 3000],
       [name |-> "Manikyur",           duration |-> 90,  price |-> 2000],
       [name |-> "Pedikyur",           duration |-> 90,  price |-> 2500] >>

SeedMasters ==
    << [name |-> "Anna",  specialization |-> "Parikmakher"],
       [name |-> "Elena", specialization |-> "Kolorist"],
       [name |-> "Mariya", specialization |-> "Master manikyura"],
       [name |-> "Irina", specialization |-> "Master pedikyura"] >>

\* range(14) days from datetime.now(), taken to be Monday 2024-01-08
Days ==
    << "2024-01-08", "2024-01-09", "2024-01-10", "2024-01-11", "2024-01-12",
       "2024-01-13", "2024-01-14", "2024-01-15", "2024-01-16", "2024-01-17",
       "2024-01-18", "2024-01-19", "2024-01-20", "2024-01-21" >>

\* datetime.weekday() of Days[i]: Monday is 0
weekday(i) == (i - 1) % 7

T1000 == <<"1", "0", ":", "0", "0">>
T1800 == <<"1", "8", ":", "0", "0">>
T1830 == <<"1", "8", ":", "3", "0">>
T1900 == <<"1", "9", ":", "0", "0">>

RECURSIVE SeedDaysOf(_, _)
SeedDaysOf(master_id, i) ==
    IF i > Len(Days) THEN <<>>
    ELSE (IF weekday(i) < 5
          THEN << [master_id |-> master_id, date |-> Days[i],
                   start_time |-> T1000, end_time |-> T1900] >>
          ELSE <<>>) \o SeedDaysOf(master_id, i + 1)

RECURSIVE SeedSchedule(_)
SeedSchedule(master_id) ==
    IF master_id > Len(SeedMasters) THEN <<>>
    ELSE SeedDaysOf(master_id, 1) \o SeedSchedule(master_id + 1)

-----------------------------------------------------------------------------
(* Queries.                                                                *)

\* ids of the rows of a table that satisfy a filter, in id order
Ids(table) == 1..Len(table)

\* Query.first(): the store returns the rows in id order here
First(ids) == IF ids = {} THEN 0 ELSE CHOOSE i \in ids : \A j \in ids : i <= j

\* the ids of a set as an ascending sequence: Query.all()
RECURSIVE All(_)
All(ids) == IF ids = {} THEN <<>> ELSE <<First(ids)>> \o All(ids \ {First(ids)})

-----------------------------------------------------------------------------
(* BookingSystem.get_available_slots                                       *)

\* the smallest element of a non-empty set of numbers
Min(S) == CHOOSE i \in S : \A j \in S : i <= j

\* current_time returns to work_start after this many iterations of the loop
Period == MinutesPerDay \div SlotStep

\* line 306: the test that ends the while loop
LeavesLoop_StartOnly(current_time, end_time, work_end) == current_time > work_end

LeavesLoop(current_time, end_time, work_end) == end_time > work_end

\* line 312: the candidate [current_time, end_time) meets the booked interval
Overlaps_SameStartOnly(current_time, end_time, booked_start, booked_end) ==
    current_time = booked_start

Overlaps_ClosedEnds(current_time, end_time, booked_start, booked_end) ==
    ~(end_time < booked_start \/ current_time > booked_end)

Overlaps(current_time, end_time, booked_start, booked_end) ==
    ~(end_time <= booked_start \/ current_time >= booked_end)

\* The while loop, iteration k = 0, 1, ... : current_time is work_start plus k
\* steps and end_time is current_time plus the duration, both wrapped at
\* midnight by .time().  The loop leaves only through "end_time > work_end",
\* at the first iteration where that holds; when it holds at none of the
\* Period iterations of one round, the loop never leaves (hangs).  Every
\* iteration before the leaving one appends its slot unless it overlaps a
\* booked interval.
SlotLoop(work_start, work_end, service_duration, booked_times) ==
    LET current_time(k) == PlusMinutes(work_start, k * SlotStep)
        end_time(k) == PlusMinutes(current_time(k), service_duration)
        leaves == {k \in 0..(Period - 1) :
                     LeavesLoop(current_time(k), end_time(k), work_end)}
        iterations == [k \in 1..Min(leaves) |-> <<current_time(k - 1), end_time(k - 1)>>]
        slot_available(c) ==
            \A b \in 1..Len(booked_times) :
                ~Overlaps(c[1], c[2], booked_times[b][1], booked_times[b][2])
        available == SelectSeq(iterations, slot_available)
    IN IF leaves = {} THEN [hangs |-> TRUE, slots |-> <<>>]
       ELSE [hangs |-> FALSE,
             slots |-> [k \in 1..Len(available) |->
                          [start_time |-> strftime(available[k][1]),
                           end_time |-> strftime(available[k][2])]]]

\* lines 269-328 over the committed rows of the schedule and bookings tables
SlotsOver_AnyStatus(schedule_rows, booking_rows, master_id, date, service_duration) ==
    LET sched == First({i \in Ids(schedule_rows) :
                          schedule_rows[i].master_id = master_id
                          /\ schedule_rows[i].date = date})
        booked_slots == All({i \in Ids(booking_rows) :
                               booking_rows[i].master_id = master_id
                               /\ booking_rows[i].date = date})
        booked_times == [k \in 1..Len(booked_slots) |->
                           << strptime(booking_rows[booked_slots[k]].start_time),
                              strptime(booking_rows[booked_slots[k]].end_time) >>]
    IN IF sched = 0 THEN [hangs |-> FALSE, slots |-> <<>>]
       ELSE SlotLoop(strptime(schedule_rows[sched].start_time),
                     strptime(schedule_rows[sched].end_time),
                     service_duration, booked_times)

SlotsOver_DefaultWindow(schedule_rows, booking_rows, master_id, date, service_duration) ==
    LET booked_slots == All({i \in Ids(booking_rows) :
                               booking_rows[i].master_id = master_id
                               /\ booking_rows[i].date = date
                               /\ booking_rows[i].status = "confirmed"})
        booked_times == [k \in 1..Len(booked_slots) |->
                           << strptime(booking_rows[booked_slots[k]].start_time),
                              strptime(booking_rows[booked_slots[k]].end_time) >>]
    IN SlotLoop(strptime(T1000), strptime(T1900), service_duration, booked_times)

SlotsOver(schedule_rows, booking_rows, master_id, date, service_duration) ==
    LET sched == First({i \in Ids(schedule_rows) :
                          schedule_rows[i].master_id = master_id
                          /\ schedule_rows[i].date = date})
        booked_slots == All({i \in Ids(booking_rows) :
                               booking_rows[i].master_id = master_id
                               /\ booking_rows[i].date = date
                               /\ booking_rows[i].status = "confirmed"})
        booked_times == [k \in 1..Len(booked_slots) |->
                           << strptime(booking_rows[booked_slots[k]].start_time),
                              strptime(booking_rows[booked_slots[k]].end_time) >>]
    IN IF sched = 0 THEN [hangs |-> FALSE, slots |-> <<>>]
       ELSE SlotLoop(strptime(schedule_rows[sched].start_time),
                     strptime(schedule_rows[sched].end_time),
                     service_duration, booked_times)

get_available_slots(master_id, date, service_duration) ==
    SlotsOver(schedule, bookings, master_id, date, service_duration)

-----------------------------------------------------------------------------
(* State after BookingSystem.__init__ on an empty database; no call is in  *)
(* flight.  pc[p] is the position of caller p inside its current call,     *)
(* frame[p] the locals of that call, returned the value handed back by the *)
(* call that returned last, with the arguments it was called with.         *)

\* the default of telegram_id, and the result of add_client on failure
None == 0

NoFrame == [op |-> "none"]

Init ==
    /\ clients = <<>>
    /\ services = SeedServices
    /\ masters = SeedMasters
    /\ schedule = SeedSchedule(1)
    /\ bookings = <<>>
    /\ pc = [p \in Callers |-> "idle"]
    /\ frame = [p \in Callers |-> NoFrame]
    /\ returned = NoFrame

\* booking rows inserted so far plus those a call in flight may still insert
Claimed == Len(bookings) + Cardinality({p \in Callers : pc[p] = "create_commit"})

-----------------------------------------------------------------------------
(* BookingSystem.add_client                                                *)

\* (Client.phone == phone) | (Client.telegram_id == telegram_id): comparing a
\* column with None is rendered as IS NULL
ClientMatches(c, phone, telegram_id) ==
    c.phone = phone \/ c.telegram_id = telegram_id

\* lines 110-119: the lookup; an existing client is returned at once.  The
\* query has no ORDER BY, so first() is any of the rows that match
AddLookup(p, name, phone, telegram_id) ==
    LET matching == {i \in Ids(clients) : ClientMatches(clients[i], phone, telegram_id)}
        args == [op |-> "add_client", name |-> name, phone |-> phone,
                 telegram_id |-> telegram_id]
    IN /\ pc[p] = "idle"
       /\ \/ /\ \E existing_client \in matching :
                   returned' = args @@ [ret |-> existing_client]
             /\ UNCHANGED <<pc, frame>>
          \/ /\ matching = {}
             /\ pc' = [pc EXCEPT ![p] = "add_commit"]
             /\ frame' = [frame EXCEPT ![p] = args]
             /\ UNCHANGED returned
       /\ UNCHANGED store

\* lines 120-136: insert and commit; the unique constraints of clients.phone
\* and clients.telegram_id raise IntegrityError, answered by a lookup by phone
AddCommit(p) ==
    LET f == frame[p]
        duplicate == \E i \in Ids(clients) :
                        \/ clients[i].phone = f.phone
                        \/ f.telegram_id # None /\ clients[i].telegram_id = f.telegram_id
        client == First({i \in Ids(clients) : clients[i].phone = f.phone})
    IN /\ pc[p] = "add_commit"
       /\ IF duplicate
          THEN /\ returned' = f @@ [ret |-> IF client # 0 THEN client ELSE None]
               /\ UNCHANGED clients
          ELSE /\ clients' = Append(clients, [name |-> f.name, phone |-> f.phone,
                                              telegram_id |-> f.telegram_id])
               /\ returned' = f @@ [ret |-> Len(clients) + 1]
       /\ pc' = [pc EXCEPT ![p] = "idle"]
       /\ frame' = [frame EXCEPT ![p] = NoFrame]
       /\ UNCHANGED <<services, masters, schedule, bookings>>

-----------------------------------------------------------------------------
(* BookingSystem.get_available_slots, called by a front end                *)

GetSlots_ClearsBookings(p, master_id, date, service_duration) ==
    /\ pc[p] = "idle"
    /\ returned' = [op |-> "get_available_slots", master_id |-> master_id,
                    date |-> date, service_duration |-> service_duration,
                    ret |-> get_available_slots(master_id, date, service_duration).slots]
    /\ bookings' = <<>>
    /\ UNCHANGED <<clients, services, masters, schedule, pc, frame>>

GetSlots(p, master_id, date, service_duration) ==
    LET r == get_available_slots(master_id, date, service_duration)
    IN /\ pc[p] = "idle"
       /\ IF r.hangs
          THEN /\ pc' = [pc EXCEPT ![p] = "hung"]
               /\ UNCHANGED returned
          ELSE /\ returned' = [op |-> "get_available_slots", master_id |-> master_id,
                               date |-> date, service_duration |-> service_duration,
                               ret |-> r.slots]
               /\ UNCHANGED pc
       /\ UNCHANGED <<store, frame>>

-----------------------------------------------------------------------------
(* BookingSystem.create_booking                                            *)

\* line 361: the requested start is compared with the slots' starts as a string
HasStart_AsTime(slots, start_time) ==
    \E k \in 1..Len(slots) : strptime(slots[k].start_time) = strptime(start_time)

HasStart(slots, start_time) == \E k \in 1..Len(slots) : slots[k].start_time = start_time

\* lines 356-357: end_time is the start plus the duration of the service, as
\* a string
BookingEnd_OneStep(start, duration) == strftime(PlusMinutes(start, SlotStep))

BookingEnd(start, duration) == strftime(PlusMinutes(start, duration))

\* lines 349-362: the service lookup, the end time and the availability check,
\* which reads the committed bookings through a session of its own
CreateCheck(p, client_id, service_id, master_id, date, start_time) ==
    LET args == [op |-> "create_booking", client_id |-> client_id,
                 service_id |-> service_id, master_id |-> master_id,
                 date |-> date, start_time |-> start_time]
        service == First({i \in Ids(services) : i = service_id})
        start == strptime(start_time)
        end_time == BookingEnd(start, services[service].duration)
        available_slots == get_available_slots(master_id, date, services[service].duration)
        reject == /\ returned' = args @@ [ret |-> FALSE]
                  /\ UNCHANGED <<pc, frame>>
    IN /\ pc[p] = "idle"
       /\ Claimed < MaxBookings
       /\ IF service = 0 THEN reject
          ELSE IF start = ValueError THEN reject
          ELSE IF available_slots.hangs
               THEN pc' = [pc EXCEPT ![p] = "hung"] /\ UNCHANGED <<frame, returned>>
          ELSE IF ~HasStart(available_slots.slots, start_time) THEN reject
          ELSE /\ pc' = [pc EXCEPT ![p] = "create_commit"]
               /\ frame' = [frame EXCEPT ![p] = args @@ [end_time |-> end_time]]
               /\ UNCHANGED returned
       /\ UNCHANGED store

\* the foreign keys of a bookings row (models.py): each references a row
ForeignKeys_NoClient(row) ==
    /\ row.service_id \in Ids(services)
    /\ row.master_id \in Ids(masters)

ForeignKeys(row) ==
    /\ row.client_id \in Ids(clients)
    /\ row.service_id \in Ids(services)
    /\ row.master_id \in Ids(masters)

\* lines 364-383: db.add and db.commit; a foreign key that references no row
\* raises IntegrityError, which the except clause turns into False
CreateCommit(p) ==
    LET f == frame[p]
        args == [op |-> "create_booking", client_id |-> f.client_id,
                 service_id |-> f.service_id, master_id |-> f.master_id,
                 date |-> f.date, start_time |-> f.start_time]
    IN /\ pc[p] = "create_commit"
       /\ IF ForeignKeys(f)
          THEN /\ bookings' = Append(bookings,
                                [client_id |-> f.client_id, service_id |-> f.service_id,
                                 master_id |-> f.master_id, date |-> f.date,
                                 start_time |-> f.start_time, end_time |-> f.end_time,
                                 status |-> "confirmed"])
               /\ returned' = args @@ [ret |-> TRUE]
          ELSE /\ returned' = args @@ [ret |-> FALSE]
               /\ UNCHANGED bookings
       /\ pc' = [pc EXCEPT ![p] = "idle"]
       /\ frame' = [frame EXCEPT ![p] = NoFrame]
       /\ UNCHANGED <<clients, services, masters, schedule>>

-----------------------------------------------------------------------------
(* BookingSystem.cancel_booking                                            *)

\* line 427: the row with the given id, 0 when there is none
FindBooking_AnyRow(booking_id) == First(Ids(bookings))

FindBooking(booking_id) == First({i \in Ids(bookings) : i = booking_id})

\* lines 431-432: booking.status = 'cancelled', committed
SetCancelled_DeletesRow(rows, booking) ==
    SubSeq(rows, 1, booking - 1) \o SubSeq(rows, booking + 1, Len(rows))

SetCancelled(rows, booking) == [rows EXCEPT ![booking].status = "cancelled"]

cancel_booking(p, booking_id) ==
    LET booking == FindBooking(booking_id)
    IN /\ pc[p] = "idle"
       /\ IF booking = 0
          THEN /\ returned' = [op |-> "cancel_booking", booking_id |-> booking_id,
                               ret |-> FALSE]
               /\ UNCHANGED bookings
          ELSE /\ bookings' = SetCancelled(bookings, booking)
               /\ returned' = [op |-> "cancel_booking", booking_id |-> booking_id,
                               ret |-> TRUE]
       /\ UNCHANGED <<clients, services, masters, schedule, pc, frame>>

-----------------------------------------------------------------------------
(* BookingSystem.get_client_bookings                                       *)

\* lines 397-400: the filter of the query
ClientBookingFilter_AnyStatus(b, client_id) == b.client_id = client_id

ClientBookingFilter(b, client_id) ==
    b.client_id = client_id /\ b.status = "confirmed"

\* lines 402-411: the dictionary made of booking row b, with the names of its
\* service and master
ClientBookingDict(b) ==
    [id |-> b, date |-> bookings[b].date, start_time |-> bookings[b].start_time,
     service |-> services[bookings[b].service_id].name,
     master |-> masters[bookings[b].master_id].name]

get_client_bookings(p, client_id) ==
    LET rows == All({i \in Ids(bookings) : ClientBookingFilter(bookings[i], client_id)})
    IN /\ pc[p] = "idle"
       /\ returned' = [op |-> "get_client_bookings", client_id |-> client_id,
                       ret |-> [k \in 1..Len(rows) |-> ClientBookingDict(rows[k])]]
       /\ UNCHANGED <<store, pc, frame>>

-----------------------------------------------------------------------------
(* AdminPanel._get_bookings_for_period (src/admin.py); the dates are given *)
(* by their place in Days.                                                 *)

\* line 173 reads self.booking.conn, an attribute BookingSystem never sets:
\* the first round of the loop raises AttributeError; with date_from after
\* date_to the loop is not entered and the empty list is returned
GetBookingsForPeriod(p, date_from, date_to) ==
    /\ pc[p] = "idle"
    /\ returned' = [op |-> "_get_bookings_for_period", date_from |-> date_from,
                    date_to |-> date_to, raised |-> date_from <= date_to,
                    ret |-> <<>>]
    /\ UNCHANGED <<store, pc, frame>>

-----------------------------------------------------------------------------
(* BookingSystem.__init__ on a store that exists already                   *)

\* the unique constraint on the name column of services and of masters
UniqueNames(rows) == \A i, j \in Ids(rows) : rows[i].name = rows[j].name => i = j

\* lines 72-84: the schedule rows made for the masters master_id .. last
RECURSIVE ScheduleFor(_, _)
ScheduleFor(master_id, last) ==
    IF master_id > last THEN <<>>
    ELSE SeedDaysOf(master_id, 1) \o ScheduleFor(master_id + 1, last)

\* lines 43-91: db.merge of an object without a primary key adds a new row, so
\* every service and master is inserted again; the commit of line 68 raises
\* IntegrityError when a name is taken, the except clause rolls back and
\* raises again
Initialise(p) ==
    LET new_services == services \o SeedServices
        new_masters == masters \o SeedMasters
    IN /\ pc[p] = "idle"
       /\ IF UniqueNames(new_services) /\ UniqueNames(new_masters)
          THEN /\ services' = new_services
               /\ masters' = new_masters
               /\ schedule' = schedule \o ScheduleFor(1, Len(new_masters))
               /\ returned' = [op |-> "__init__", raised |-> FALSE]
          ELSE /\ returned' = [op |-> "__init__", raised |-> TRUE]
               /\ UNCHANGED <<services, masters, schedule>>
       /\ UNCHANGED <<clients, bookings, pc, frame>>

-----------------------------------------------------------------------------
(* The callers' requests.                                                  *)

NameInputs == {"Olga"}
PhoneInputs == {"+70000000001"}
TelegramInputs == {None}

\* a Wednesday of the seeded schedule and a Saturday
Wednesday == "2024-01-10"
Saturday == "2024-01-13"

\* the last start of a 60 minute slot, a start whose 60 minute slot ends
\* after the window, a start off the step, one not zero-padded, and one that
\* is not a time
StartInputs ==
    { T1800,
      T1830,
      <<"1", "8", ":", "0", "7">>,
      <<"1", "8", ":", "0">>,
      <<"1", "8", "0", "0">> }

\* client 1 is the first client add_client creates, client 2 is never
\* created; service 1 lasts 60 minutes and service 2 lasts 30, no service has
\* id 6 and no master id 5
BookingRequest == [client_id |-> 1, service_id |-> 1, master_id |-> 1,
                   date |-> Wednesday, start_time |-> T1800]
CreateInputs ==
    {[BookingRequest EXCEPT !.start_time = t] : t \in StartInputs}
    \cup {[BookingRequest EXCEPT !.service_id = 2, !.start_time = t] :
             t \in {T1800, T1830}}
    \cup {[BookingRequest EXCEPT !.client_id = 2], [BookingRequest EXCEPT !.service_id = 6],
          [BookingRequest EXCEPT !.master_id = 5], [BookingRequest EXCEPT !.date = Saturday]}

\* durations of a service, and one that carries the end of a slot to midnight
SlotInputs ==
    {[master_id |-> 1, date |-> Wednesday, service_duration |-> 60],
     [master_id |-> 1, date |-> Wednesday, service_duration |-> 30],
     [master_id |-> 1, date |-> Wednesday, service_duration |-> 840],
     [master_id |-> 1, date |-> Saturday, service_duration |-> 60]}

\* every booking id in use and the next one, which is not
BookingIdInputs == 1..(Len(bookings) + 1)

Calls(p) ==
    \/ \E name \in NameInputs, phone \in PhoneInputs, telegram_id \in TelegramInputs :
          AddLookup(p, name, phone, telegram_id)
    \/ AddCommit(p)
    \/ \E q \in SlotInputs : GetSlots(p, q.master_id, q.date, q.service_duration)
    \/ \E q \in CreateInputs :
          CreateCheck(p, q.client_id, q.service_id, q.master_id, q.date, q.start_time)
    \/ CreateCommit(p)
    \/ \E booking_id \in BookingIdInputs : cancel_booking(p, booking_id)

\* callers run concurrently: a step is one step of one caller's call
Next == \E p \in Callers : Calls(p)

Spec == Init /\ [][Next]_vars

\* calls do not interleave: a caller moves only while no other call is in flight
Alone(p) == \A q \in Callers \ {p} : pc[q] = "idle"

NextSeq == \E p \in Callers : Alone(p) /\ Calls(p)

SpecSeq == Init /\ [][NextSeq]_vars

-----------------------------------------------------------------------------
(* The add_client requests of the callers on their own, over two phone     *)
(* numbers, two names and a Telegram id that is given or left out.         *)

ClientNames == {"Olga", "Vera"}
ClientPhones == {"+70000000001", "+70000000002"}
ClientTelegramIds == {None, 101}

ClientCalls(p) ==
    \/ \E name \in ClientNames, phone \in ClientPhones, telegram_id \in ClientTelegramIds :
          AddLookup(p, name, phone, telegram_id)
    \/ AddCommit(p)

NextClients == \E p \in Callers : ClientCalls(p)

SpecClients == Init /\ [][NextClients]_vars

NextClientsSeq == \E p \in Callers : Alone(p) /\ ClientCalls(p)

SpecClientsSeq == Init /\ [][NextClientsSeq]_vars

-----------------------------------------------------------------------------
(* The reading calls of the front ends and a restart of the engine, next   *)
(* to the calls that write the bookings they read.                         *)

\* the bookings asked for: 60 minutes at 18:00 and 30 minutes at 18:30
ReadCreateInputs ==
    {BookingRequest, [BookingRequest EXCEPT !.service_id = 2, !.start_time = T1830]}

\* the client add_client creates and one that does not exist
ClientIdInputs == {1, 2}

\* periods <<date_from, date_to>>: one day, three days, and an empty one
PeriodInputs == {<<3, 3>>, <<3, 5>>, <<5, 3>>}

ReadCalls(p) ==
    \/ \E name \in NameInputs, phone \in PhoneInputs, telegram_id \in TelegramInputs :
          AddLookup(p, name, phone, telegram_id)
    \/ AddCommit(p)
    \/ \E q \in ReadCreateInputs :
          CreateCheck(p, q.client_id, q.service_id, q.master_id, q.date, q.start_time)
    \/ CreateCommit(p)
    \/ \E booking_id \in BookingIdInputs : cancel_booking(p, booking_id)
    \/ \E client_id \in ClientIdInputs : get_client_bookings(p, client_id)
    \/ \E period \in PeriodInputs : GetBookingsForPeriod(p, period[1], period[2])
    \/ Initialise(p)

NextReads == \E p \in Callers : ReadCalls(p)

SpecReads == Init /\ [][NextReads]_vars

-----------------------------------------------------------------------------
(* Failures of the store: a statement sent to the database raises an error *)
(* other than IntegrityError (the connection is lost, the transaction is   *)
(* aborted).  pc[p] is then in the except clause of the call.              *)

ExceptStates == {"add_except", "create_except", "cancel_except"}

\* add_client line 123 or create_booking line 375: db.commit() raises and
\* nothing is committed
CommitFails(p) ==
    /\ pc[p] \in {"add_commit", "create_commit"}
    /\ pc' = [pc EXCEPT ![p] = IF pc[p] = "add_commit" THEN "add_except"
                               ELSE "create_except"]
    /\ UNCHANGED <<store, frame, returned>>

\* add_client line 124: the commit went through, and reading client.id, which
\* the commit has expired, sends a SELECT that raises
RefreshFails(p) ==
    LET f == frame[p]
    IN /\ pc[p] = "add_commit"
       /\ ~\E i \in Ids(clients) :
              \/ clients[i].phone = f.phone
              \/ f.telegram_id # None /\ clients[i].telegram_id = f.telegram_id
       /\ clients' = Append(clients, [name |-> f.name, phone |-> f.phone,
                                      telegram_id |-> f.telegram_id])
       /\ pc' = [pc EXCEPT ![p] = "add_except"]
       /\ UNCHANGED <<services, masters, schedule, bookings, frame, returned>>

\* add_client lines 126-130: the insert has raised IntegrityError and the
\* query of line 129, inside that except clause, raises: no clause catches
\* it and the error leaves add_client
FallbackFails(p) ==
    LET f == frame[p]
    IN /\ pc[p] = "add_commit"
       /\ \E i \in Ids(clients) :
             \/ clients[i].phone = f.phone
             \/ f.telegram_id # None /\ clients[i].telegram_id = f.telegram_id
       /\ returned' = [op |-> "add_client", name |-> f.name, phone |-> f.phone,
                       telegram_id |-> f.telegram_id, raised |-> TRUE]
       /\ pc' = [pc EXCEPT ![p] = "idle"]
       /\ frame' = [frame EXCEPT ![p] = NoFrame]
       /\ UNCHANGED store

\* create_booking lines 352-360: a query of the check raises
CreateQueryFails(p, client_id, service_id, master_id, date, start_time) ==
    /\ pc[p] = "idle"
    /\ pc' = [pc EXCEPT ![p] = "create_except"]
    /\ frame' = [frame EXCEPT ![p] =
                    [op |-> "create_booking", client_id |-> client_id,
                     service_id |-> service_id, master_id |-> master_id,
                     date |-> date, start_time |-> start_time]]
    /\ UNCHANGED <<store, returned>>

\* cancel_booking lines 427-432: the query raises, or the commit does after
\* the status was assigned in the session
CancelFails(p, booking_id) ==
    /\ pc[p] = "idle"
    /\ pc' = [pc EXCEPT ![p] = "cancel_except"]
    /\ frame' = [frame EXCEPT ![p] = [op |-> "cancel_booking", booking_id |-> booking_id]]
    /\ UNCHANGED <<store, returned>>

\* the except Exception clauses (lines 131-134, 378-381, 435-438):
\* db.rollback() drops what the session has not committed, and the call
\* returns None (add_client) or False
Except(p) ==
    LET f == frame[p]
        args == [k \in DOMAIN f \ {"end_time"} |-> f[k]]
    IN /\ pc[p] \in ExceptStates
       /\ returned' = args @@ [ret |-> IF pc[p] = "add_except" THEN None ELSE FALSE]
       /\ pc' = [pc EXCEPT ![p] = "idle"]
       /\ frame' = [frame EXCEPT ![p] = NoFrame]
       /\ UNCHANGED store

FaultCalls(p) ==
    \/ \E name \in NameInputs, phone \in PhoneInputs, telegram_id \in TelegramInputs :
          AddLookup(p, name, phone, telegram_id)
    \/ AddCommit(p)
    \/ \E q \in ReadCreateInputs :
          CreateCheck(p, q.client_id, q.service_id, q.master_id, q.date, q.start_time)
    \/ CreateCommit(p)
    \/ \E booking_id \in BookingIdInputs : cancel_booking(p, booking_id)
    \/ CommitFails(p)
    \/ RefreshFails(p)
    \/ FallbackFails(p)
    \/ \E q \in ReadCreateInputs :
          CreateQueryFails(p, q.client_id, q.service_id, q.master_id, q.date, q.start_time)
    \/ \E booking_id \in BookingIdInputs : CancelFails(p, booking_id)
    \/ Except(p)

NextFaults == \E p \in Callers : FaultCalls(p)

SpecFaults == Init /\ [][NextFaults]_vars

-----------------------------------------------------------------------------
(* get_available_slots over a schedule row other than the seeded ones: the *)
(* store holds one work window of master 1, drawn from WindowInputs, and   *)
(* the callers ask for the slots of that day.                              *)

T0000 == <<"0", "0", ":", "0", "0">>
T2300 == <<"2", "3", ":", "0", "0">>
T2330 == <<"2", "3", ":", "3", "0">>
T2345 == <<"2", "3", ":", "4", "5">>
T2359 == <<"2", "3", ":", "5", "9">>

\* windows <<open, close>> with open < close within one day
WindowInputs ==
    {w \in {T0000, T1000, T1800, T2300} \X {T1900, T2330, T2345, T2359} :
        strptime(w[1]) < strptime(w[2])}

\* positive durations: off the step, one step, of a service and a long one
DurationInputs == {1, 15, 20, 30, 60, 840}

InitWindows ==
    /\ clients = <<>>
    /\ services = SeedServices
    /\ masters = SeedMasters
    /\ \E w \in WindowInputs :
          schedule = << [master_id |-> 1, date |-> Wednesday,
                         start_time |-> w[1], end_time |-> w[2]] >>
    /\ bookings = <<>>
    /\ pc = [p \in Callers |-> "idle"]
    /\ frame = [p \in Callers |-> NoFrame]
    /\ returned = NoFrame

NextWindows ==
    \E p \in Callers, service_duration \in DurationInputs :
        GetSlots(p, 1, Wednesday, service_duration)

SpecWindows == InitWindows /\ [][NextWindows]_vars

-----------------------------------------------------------------------------
(* Vocabulary of the properties.                                           *)

Start(b) == strptime(b.start_time)
End(b) == strptime(b.end_time)

Confirmed == {i \in Ids(bookings) : bookings[i].status = "confirmed"}

\* the half-open intervals [start, end) of a and b, of one master on one
\* date, overlap
Conflict(a, b) ==
    /\ a.master_id = b.master_id
    /\ a.date = b.date
    /\ Start(a) < End(b)
    /\ Start(b) < End(a)

NoConfirmedConflict ==
    \A i, j \in Confirmed : i # j => ~Conflict(bookings[i], bookings[j])

\* no call is in flight
AllReturned == \A p \in Callers : pc[p] = "idle"

\* the step on which the create_booking of caller p returns from its commit
CommitReturns(p) == pc[p] = "create_commit" /\ pc'[p] = "idle"

\* the work window of a master on a date, as a set of schedule ids
Windows(master_id, date) ==
    {w \in Ids(schedule) : schedule[w].master_id = master_id /\ schedule[w].date = date}

-----------------------------------------------------------------------------
(* C1: under concurrent create_booking calls, interleaved between the      *)
(* availability check and the insert, no reachable state holds two         *)
(* confirmed bookings of one master and date whose intervals overlap.      *)
C1_NoDoubleBooking ==
    \A i \in Confirmed : \A j \in Confirmed \ {i} :
        ~Conflict(bookings[i], bookings[j])

(* C2: of the concurrent create_booking calls of one master and date with  *)
(* overlapping intervals exactly one succeeds: a call that reaches its     *)
(* commit after an overlapping booking was confirmed returns False and     *)
(* inserts no row, and a call that reaches it with the interval still free *)
(* returns True and inserts one row.                                       *)
C2_ExactlyOneWins ==
    [][\A p \in Callers :
          CommitReturns(p) =>
             IF \E i \in Confirmed : Conflict(bookings[i], frame[p])
             THEN returned'.ret = FALSE /\ bookings' = bookings
             ELSE frame[p].client_id \in Ids(clients) =>
                     returned'.ret = TRUE /\ Len(bookings') = Len(bookings) + 1]_vars

(* C3: when create_booking and cancel_booking calls do not interleave, no  *)
(* two confirmed bookings of one master and date overlap once the calls    *)
(* have returned.                                                          *)
C3_SequentialNoOverlap == AllReturned => NoConfirmedConflict

\* two confirmed bookings of one master and date, the second starting where
\* the first ends
C3_Witness ==
    /\ AllReturned
    /\ \E i, j \in Confirmed :
          /\ i # j
          /\ bookings[i].master_id = bookings[j].master_id
          /\ bookings[i].date = bookings[j].date
          /\ End(bookings[i]) = Start(bookings[j])

(* C4: every confirmed booking lies within the work window of its master   *)
(* for its date: a window exists, open <= start and end <= close.          *)
C4_WithinWorkWindow ==
    \A i \in Confirmed :
        \E w \in Windows(bookings[i].master_id, bookings[i].date) :
            /\ strptime(schedule[w].start_time) <= Start(bookings[i])
            /\ End(bookings[i]) <= strptime(schedule[w].end_time)

\* a confirmed booking that ends when its master's window closes
C4_Witness ==
    \E i \in Confirmed :
        \E w \in Windows(bookings[i].master_id, bookings[i].date) :
            End(bookings[i]) = strptime(schedule[w].end_time)

\* the step on which a get_available_slots call returns
SlotsReturned == returned' # returned /\ returned'.op = "get_available_slots"

(* C5: every slot returned by get_available_slots for a master, a date and *)
(* a positive duration has open <= start, end = start + duration and       *)
(* end <= close on the same day, and overlaps no confirmed booking of that *)
(* master and date.                                                        *)
C5_SlotsFitWindow ==
    [][SlotsReturned =>
          \A k \in 1..Len(returned'.ret) :
             LET slot == returned'.ret[k]
                 call == returned'
             IN /\ \E w \in Windows(call.master_id, call.date) :
                      /\ strptime(schedule[w].start_time) <= Start(slot)
                      /\ End(slot) <= strptime(schedule[w].end_time)
                /\ End(slot) = Start(slot) + call.service_duration
                /\ \A i \in Confirmed :
                      ~Conflict(bookings[i],
                                [master_id |-> call.master_id, date |-> call.date,
                                 start_time |-> slot.start_time,
                                 end_time |-> slot.end_time])]_vars

\* the step on which a cancel_booking call returns
CancelReturned ==
    /\ returned'.op = "cancel_booking"
    /\ returned' # returned \/ bookings' # bookings

(* C6: cancel_booking of a booking that is already cancelled returns the   *)
(* failure result False and leaves the store unchanged.                    *)
C6_CancelCancelledFails ==
    [][\A id \in Ids(bookings) :
          (CancelReturned /\ returned'.booking_id = id
             /\ bookings[id].status = "cancelled")
          => returned'.ret = FALSE /\ store' = store]_vars

(* C7: cancel_booking with an id that matches no booking returns False     *)
(* without raising and changes no booking.                                 *)
C7_CancelUnknownFails ==
    [][(CancelReturned /\ returned'.booking_id \notin Ids(bookings))
          => returned'.ret = FALSE /\ bookings' = bookings]_vars

\* a cancel_booking of an id that no booking has, has returned False
C7_Witness ==
    /\ returned.op = "cancel_booking"
    /\ returned.booking_id \notin Ids(bookings)
    /\ returned.ret = FALSE

\* get_available_slots returns, for the master, date and service of request
\* q, a slot that starts at the requested start
Offered(q) ==
    /\ q.service_id \in Ids(services)
    /\ LET slots == get_available_slots(q.master_id, q.date,
                                        services[q.service_id].duration).slots
       IN \E k \in 1..Len(slots) : slots[k].start_time = q.start_time

\* the step on which the create_booking of caller p passes its availability
\* check and goes on to insert the request frame'[p]
CheckPasses(p) == pc[p] = "idle" /\ pc'[p] = "create_commit"

\* the step on which a create_booking call returns from its availability
\* check, with the request and the result in returned'
CheckReturns ==
    /\ returned'.op = "create_booking"
    /\ returned' # returned
    /\ pc' = pc

(* C8: create_booking with a start that is not the start of a slot         *)
(* get_available_slots returns at that moment for the same master, date    *)
(* and service duration is rejected and the bookings are unchanged: the    *)
(* call does not go on to insert, and it returns False with no row added.  *)
C8_RejectsUnofferedStart ==
    [][/\ \A p \in Callers : CheckPasses(p) => Offered(frame'[p])
       /\ (CheckReturns /\ ~Offered(returned'))
             => returned'.ret = FALSE /\ bookings' = bookings]_vars

\* a request for the start "18:0", which strptime reads as 18:00 and no slot
\* has as its start, has been rejected while the slot at 18:00 was free
C8_Witness ==
    /\ returned.op = "create_booking"
    /\ returned.start_time = <<"1", "8", ":", "0">>
    /\ strptime(returned.start_time) = strptime(T1800)
    /\ returned.ret = FALSE
    /\ bookings = <<>>

\* the client, service and master ids of a request reference rows
References(q) ==
    /\ q.client_id \in Ids(clients)
    /\ q.service_id \in Ids(services)
    /\ q.master_id \in Ids(masters)

(* C9: create_booking with a client, service or master id that references  *)
(* no row is rejected and inserts no booking, hence every booking          *)
(* references an existing client, service and master.                      *)
C9_ReferencesExist ==
    /\ [](\A i \in Ids(bookings) : References(bookings[i]))
    /\ [][/\ \A p \in Callers :
                /\ CheckPasses(p) =>
                      /\ frame'[p].service_id \in Ids(services)
                      /\ frame'[p].master_id \in Ids(masters)
                /\ (CommitReturns(p) /\ ~References(frame[p])) =>
                      returned'.ret = FALSE /\ bookings' = bookings
          /\ (CheckReturns /\ ~References(returned')) =>
                returned'.ret = FALSE /\ bookings' = bookings]_vars

\* a request of a client that does not exist, for an existing service and
\* master and a free slot, has been rejected at its commit
C9_Witness ==
    /\ returned.op = "create_booking"
    /\ returned.client_id \notin Ids(clients)
    /\ returned.service_id \in Ids(services)
    /\ returned.master_id \in Ids(masters)
    /\ returned.date = Wednesday
    /\ returned.start_time = T1800
    /\ returned.ret = FALSE
    /\ clients # <<>>
    /\ bookings = <<>>

\* get_available_slots over the given booking rows, for the master, date and
\* service duration of booking b, returns the slot {b.start_time, b.end_time}
SlotOffered(booking_rows, b) ==
    LET slots == SlotsOver(schedule, booking_rows, b.master_id, b.date,
                           services[b.service_id].duration).slots
    IN \E k \in 1..Len(slots) :
          slots[k] = [start_time |-> b.start_time, end_time |-> b.end_time]

(* C10: after cancel_booking succeeds for a confirmed booking b, a          *)
(* get_available_slots for b's master and date with b's service duration,  *)
(* with no write in between, contains the slot {b.start_time, b.end_time}. *)
C10_CancelFreesSlot ==
    [][\A id \in Ids(bookings) :
          (/\ CancelReturned /\ returned'.booking_id = id /\ returned'.ret = TRUE
           /\ bookings[id].status = "confirmed")
          => SlotOffered(bookings', bookings[id])]_vars

\* the step on which an add_client call returns, with its arguments and its
\* result in returned'
AddReturned == returned' # returned /\ returned'.op = "add_client"

\* some client holds the phone number
PhoneHeld(phone) == \E i \in Ids(clients) : clients[i].phone = phone

\* some client holds the Telegram id
TelegramHeld(telegram_id) == \E i \in Ids(clients) : clients[i].telegram_id = telegram_id

(* C11: add_client called with a phone number no client holds, and with no *)
(* Telegram id or one that no client holds, inserts a client with the      *)
(* given name and phone and returns an id that no client had before.       *)
C11_NewPhoneCreatesClient ==
    [][(/\ AddReturned
        /\ ~PhoneHeld(returned'.phone)
        /\ returned'.telegram_id = None \/ ~TelegramHeld(returned'.telegram_id))
       => /\ clients' = Append(clients, [name |-> returned'.name,
                                           phone |-> returned'.phone,
                                           telegram_id |-> returned'.telegram_id])
          /\ returned'.ret # None
          /\ returned'.ret \notin Ids(clients)]_vars

(* C12: of two add_client calls in a row with the same phone and different *)
(* names, the second returns the id the first returned and changes no      *)
(* client: the stored name and phone stay those of the first call.         *)
C12_FirstWriteWins ==
    [][(/\ AddReturned
        /\ returned.op = "add_client"
        /\ returned.phone = returned'.phone
        /\ returned.name # returned'.name)
       => returned'.ret = returned.ret /\ clients' = clients]_vars

\* the step on which the add_client of caller p returns from its commit
AddCommitReturns(p) == pc[p] = "add_commit" /\ pc'[p] = "idle"

\* caller p is about to commit a phone number for which another call has
\* passed the lookup as well: that call is still to commit, or it has
\* committed its client already
Racing(p) ==
    \/ \E q \in Callers \ {p} : pc[q] = "add_commit" /\ frame[q].phone = frame[p].phone
    \/ PhoneHeld(frame[p].phone)

(* C13: when two add_client calls for one new phone number both pass the   *)
(* lookup before either commits, each returns the id, not None, of the     *)
(* one client that holds the phone after its commit, and no two clients    *)
(* hold the same phone.                                                    *)
C13_RaceReturnsWinner ==
    /\ [](\A i, j \in Ids(clients) : clients[i].phone = clients[j].phone => i = j)
    /\ [][\A p \in Callers :
             (AddCommitReturns(p) /\ Racing(p))
             => /\ returned'.ret # None
                /\ returned'.ret \in Ids(clients')
                /\ clients'[returned'.ret].phone = frame[p].phone]_vars

\* a booking row without its status
Unstatused(b) == [client_id |-> b.client_id, service_id |-> b.service_id,
                  master_id |-> b.master_id, date |-> b.date,
                  start_time |-> b.start_time, end_time |-> b.end_time]

(* C14: no operation removes a booking row or changes a field of it other  *)
(* than status: every booking stays present under its id with its client,  *)
(* service, master, date, start and end, through cancel_booking too.       *)
C14_CancelKeepsRows ==
    [][/\ Len(bookings') >= Len(bookings)
       /\ \A i \in Ids(bookings) : Unstatused(bookings'[i]) = Unstatused(bookings[i])]_vars

\* booking 1 has been cancelled by the call that returned last, and a booking
\* created after it is still confirmed
C14_Witness ==
    /\ returned.op = "cancel_booking"
    /\ returned.booking_id = 1
    /\ returned.ret = TRUE
    /\ Len(bookings) = 2
    /\ bookings[1].status = "cancelled"
    /\ bookings[2].status = "confirmed"

(* C15: every booking row has start < end and end = start + the duration   *)
(* of its service on the same day, and is inserted with status confirmed;  *)
(* create_booking computes the end from the start it was given.            *)
C15_EndIsStartPlusDuration ==
    /\ [](\A i \in Ids(bookings) :
            /\ Start(bookings[i]) < End(bookings[i])
            /\ End(bookings[i]) = Start(bookings[i])
                                     + services[bookings[i].service_id].duration)
    /\ [][\A p \in Callers :
             (CommitReturns(p) /\ bookings' # bookings)
             => LET row == bookings'[Len(bookings')]
                IN /\ row.status = "confirmed"
                   /\ row.start_time = frame[p].start_time
                   /\ End(row) = strptime(frame[p].start_time)
                                    + services[frame[p].service_id].duration]_vars

\* a 60 minute and a 30 minute booking have been created
C15_Witness ==
    /\ Len(bookings) = 2
    /\ services[bookings[1].service_id].duration = 60
    /\ services[bookings[2].service_id].duration = 30
    /\ returned.op = "create_booking"
    /\ returned.ret = TRUE

(* C16: get_available_slots returns the empty list when the master has no *)
(* schedule row for the date, and create_booking for such a master and     *)
(* date is rejected: it does not go on to insert and returns False.        *)
C16_NoWindowNoSlots ==
    [][/\ (SlotsReturned /\ Windows(returned'.master_id, returned'.date) = {})
             => returned'.ret = <<>>
       /\ \A p \in Callers :
             CheckPasses(p) => Windows(frame'[p].master_id, frame'[p].date) # {}
       /\ (CheckReturns /\ Windows(returned'.master_id, returned'.date) = {})
             => returned'.ret = FALSE /\ bookings' = bookings]_vars

\* a create_booking for a date on which the master has no window has been
\* rejected, the client and the service existing, and get_available_slots
\* has no slot for that master and date
C16_Witness ==
    /\ returned.op = "create_booking"
    /\ returned.client_id \in Ids(clients)
    /\ returned.service_id \in Ids(services)
    /\ returned.master_id \in Ids(masters)
    /\ Windows(returned.master_id, returned.date) = {}
    /\ returned.ret = FALSE
    /\ get_available_slots(returned.master_id, returned.date,
                           services[returned.service_id].duration).slots = <<>>

(* C17: for a duration greater than the length close - open of the work    *)
(* window, get_available_slots returns the empty list, also when start +   *)
(* duration passes midnight.                                               *)
C17_TooLongNoSlots ==
    [][SlotsReturned =>
          \A w \in Windows(returned'.master_id, returned'.date) :
             returned'.service_duration > strptime(schedule[w].end_time)
                                            - strptime(schedule[w].start_time)
             => returned'.ret = <<>>]_vars

(* C18: the list returned by get_available_slots is strictly ascending by  *)
(* start time, so no start occurs twice.                                   *)
C18_SlotsAscending ==
    [][SlotsReturned =>
          \A j, k \in 1..Len(returned'.ret) :
             j < k => Start(returned'.ret[j]) < Start(returned'.ret[k])]_vars

\* the confirmed bookings of a master on a date
ConfirmedOf(master_id, date) ==
    {i \in Confirmed : bookings[i].master_id = master_id /\ bookings[i].date = date}

\* the candidate slots of a call: the intervals <<start, end>> of the given
\* duration, in minutes since midnight, that start a whole number of steps
\* after the window opens and end by the time it closes
Candidates(master_id, date, service_duration) ==
    UNION {LET open == strptime(schedule[w].start_time)
               close == strptime(schedule[w].end_time)
           IN {<<open + k * SlotStep, open + k * SlotStep + service_duration>> :
                 k \in {n \in 0..(Period - 1) :
                          open + n * SlotStep + service_duration <= close}} :
           w \in Windows(master_id, date)}

\* the intervals <<start, end>> of the confirmed bookings of a master on a date
BookedIntervals(master_id, date) ==
    {<<Start(bookings[i]), End(bookings[i])>> : i \in ConfirmedOf(master_id, date)}

\* candidate c meets the booked interval b only at an end point
Abuts(c, b) == c[1] = b[2] \/ c[2] = b[1]

\* the half-open intervals c and b overlap
Meets(c, b) == c[1] < b[2] /\ b[1] < c[2]

(* C19: a candidate slot that abuts a confirmed booking of the master and  *)
(* date (its start is the booking's end, or its end the booking's start)   *)
(* and overlaps no confirmed booking is returned by get_available_slots,   *)
(* and a candidate with start < booked end and booked start < end for a    *)
(* confirmed booking is not returned.                                      *)
C19_AbuttingSlotsOffered ==
    [][SlotsReturned =>
          LET call == returned'
              booked == BookedIntervals(call.master_id, call.date)
              slots == {call.ret[k] : k \in 1..Len(call.ret)}
              slot(c) == [start_time |-> strftime(c[1]), end_time |-> strftime(c[2])]
          IN booked # {} =>
                \A c \in Candidates(call.master_id, call.date, call.service_duration) :
                   /\ ((\E b \in booked : Abuts(c, b)) /\ (\A b \in booked : ~Meets(c, b)))
                         => slot(c) \in slots
                   /\ (\E b \in booked : Meets(c, b)) => slot(c) \notin slots]_vars

\* with the booking 18:00-18:30 confirmed, a call for 30 minutes has returned
\* the slots 17:30-18:00 and 18:30-19:00, which abut it, and not 18:00 or 17:45
C19_Witness ==
    /\ returned.op = "get_available_slots"
    /\ returned.service_duration = 30
    /\ \E i \in ConfirmedOf(returned.master_id, returned.date) :
          /\ bookings[i].start_time = T1800
          /\ bookings[i].end_time = T1830
          /\ \E k \in 1..Len(returned.ret) : returned.ret[k].end_time = T1800
          /\ \E k \in 1..Len(returned.ret) : returned.ret[k].start_time = T1830
          /\ \A k \in 1..Len(returned.ret) :
                /\ returned.ret[k].start_time # T1800
                /\ returned.ret[k].start_time # <<"1", "7", ":", "4", "5">>

(* C20: get_available_slots changes nothing in the store, and the list it  *)
(* returns is the list a second call with the same master, date and        *)
(* duration returns in the state it leaves.                                *)
C20_SlotsIdempotent ==
    [][SlotsReturned =>
          /\ store' = store
          /\ returned'.ret = SlotsOver(schedule', bookings', returned'.master_id,
                                       returned'.date,
                                       returned'.service_duration).slots]_vars

\* a call has returned slots while a booking of the master and date was
\* confirmed, and a call made now returns the same list
C20_Witness ==
    /\ returned.op = "get_available_slots"
    /\ returned.ret # <<>>
    /\ ConfirmedOf(returned.master_id, returned.date) # {}
    /\ returned.ret = get_available_slots(returned.master_id, returned.date,
                                          returned.service_duration).slots

(* C25: add_client called with a phone that client A holds and a Telegram *)
(* id that a different client B holds returns the id of A: the phone match *)
(* comes before the Telegram id match.                                     *)
C25_PhoneMatchFirst ==
    [][AddReturned =>
          \A a, b \in Ids(clients) :
             (/\ a # b
              /\ clients[a].phone = returned'.phone
              /\ returned'.telegram_id # None
              /\ clients[b].telegram_id = returned'.telegram_id)
             => returned'.ret = a]_vars

(* C23: get_available_slots returns exactly the candidates {open + 15k,    *)
(* open + 15k + duration}, k = 0, 1, ..., that end by the close of the     *)
(* window and overlap no confirmed booking of the master and date, each    *)
(* once; for the window 10:00-19:00, no booking and 60 minutes these are   *)
(* 33 slots, from {10:00, 11:00} to {18:00, 19:00}.                        *)
C23_ExactlyTheCandidates ==
    [][SlotsReturned =>
          LET call == returned'
              booked == BookedIntervals(call.master_id, call.date)
              free == {c \in Candidates(call.master_id, call.date, call.service_duration) :
                         \A b \in booked : ~Meets(c, b)}
          IN /\ {call.ret[k] : k \in 1..Len(call.ret)}
                  = {[start_time |-> strftime(c[1]), end_time |-> strftime(c[2])] : c \in free}
             /\ Len(call.ret) = Cardinality(free)
             /\ (/\ call.service_duration = 60
                 /\ Windows(call.master_id, call.date) # {}
                 /\ booked = {})
                => /\ Len(call.ret) = 33
                   /\ call.ret[1] = [start_time |-> T1000,
                                     end_time |-> <<"1", "1", ":", "0", "0">>]
                   /\ call.ret[33] = [start_time |-> T1800, end_time |-> T1900]]_vars

\* the booking rows that are confirmed, the cancelled ones left out
IsConfirmed(b) == b.status = "confirmed"
ConfirmedRows == SelectSeq(bookings, IsConfirmed)

\* get_available_slots over the given booking rows returns, for the master,
\* date and service of request q, a slot that starts at the requested start
OfferedAmong(booking_rows, q) ==
    /\ q.service_id \in Ids(services)
    /\ LET slots == SlotsOver(schedule, booking_rows, q.master_id, q.date,
                              services[q.service_id].duration).slots
       IN \E k \in 1..Len(slots) : slots[k].start_time = q.start_time

(* C27: a cancelled booking stays cancelled through every operation, and   *)
(* it blocks nothing: get_available_slots returns what it returns with the *)
(* cancelled rows taken away, and create_booking accepts a start exactly   *)
(* when that start is offered with the cancelled rows taken away.          *)
C27_CancelledStaysCancelled ==
    [][/\ \A i \in Ids(bookings) :
             bookings[i].status = "cancelled"
             => i \in Ids(bookings') /\ bookings'[i].status = "cancelled"
       /\ SlotsReturned =>
             returned'.ret = SlotsOver(schedule, ConfirmedRows, returned'.master_id,
                                       returned'.date, returned'.service_duration).slots
       /\ \A p \in Callers : CheckPasses(p) => OfferedAmong(ConfirmedRows, frame'[p])
       /\ (CheckReturns /\ returned'.ret = FALSE)
             => ~OfferedAmong(ConfirmedRows, returned')]_vars

\* booking 1 is cancelled and booking 2, created on the same interval, is
\* confirmed by the create_booking that returned last
C27_Witness ==
    /\ Len(bookings) = 2
    /\ bookings[1].status = "cancelled"
    /\ bookings[2].status = "confirmed"
    /\ Conflict(bookings[1], bookings[2])
    /\ returned.op = "create_booking"
    /\ returned.ret = TRUE

(* C24: get_available_slots terminates for every work window with open <  *)
(* close within one day and every positive duration, also for a window     *)
(* that closes within 15 minutes of midnight: no call stays in its loop.   *)
C24_SlotsTerminate == \A p \in Callers : pc[p] # "hung"

\* the step on which a get_client_bookings call returns
ClientBookingsReturned ==
    returned' # returned /\ returned'.op = "get_client_bookings"

(* C21: get_client_bookings returns exactly the confirmed bookings of the  *)
(* client, each once with its date, start, service and master: a booking   *)
(* is listed once created and no longer once cancelled, and a client that  *)
(* does not exist gets the empty list.                                     *)
C21_ClientBookingsConfirmed ==
    [][ClientBookingsReturned =>
          LET call == returned'
              listed == {call.ret[k].id : k \in 1..Len(call.ret)}
          IN /\ listed = {i \in Confirmed : bookings[i].client_id = call.client_id}
             /\ Len(call.ret) = Cardinality(listed)
             /\ \A k \in 1..Len(call.ret) :
                   LET b == bookings[call.ret[k].id]
                   IN /\ call.ret[k].date = b.date
                      /\ call.ret[k].start_time = b.start_time
                      /\ call.ret[k].service = services[b.service_id].name
                      /\ call.ret[k].master = masters[b.master_id].name
             /\ call.client_id \notin Ids(clients) => call.ret = <<>>]_vars

\* client 1 has a cancelled and a confirmed booking, and the call that
\* returned last lists the confirmed one alone
C21_Witness ==
    /\ returned.op = "get_client_bookings"
    /\ returned.client_id = 1
    /\ Len(bookings) = 2
    /\ bookings[1].client_id = 1 /\ bookings[1].status = "cancelled"
    /\ bookings[2].client_id = 1 /\ bookings[2].status = "confirmed"
    /\ Len(returned.ret) = 1
    /\ returned.ret[1].id = 2

\* the place of a date in Days
DayIndex(date) == CHOOSE i \in 1..Len(Days) : Days[i] = date

\* the step on which a _get_bookings_for_period call returns or raises
PeriodReturned ==
    returned' # returned /\ returned'.op = "_get_bookings_for_period"

(* C22: _get_bookings_for_period returns exactly the confirmed bookings    *)
(* whose date lies in [date_from, date_to], ordered by date and, within a  *)
(* date, by start time.                                                    *)
C22_PeriodBookings ==
    [][PeriodReturned =>
          LET call == returned'
              listed == {call.ret[k].id : k \in 1..Len(call.ret)}
              key(k) == <<DayIndex(call.ret[k].date), strptime(call.ret[k].start_time)>>
          IN /\ ~call.raised
             /\ listed = {i \in Confirmed :
                            DayIndex(bookings[i].date) \in call.date_from..call.date_to}
             /\ Len(call.ret) = Cardinality(listed)
             /\ \A j, k \in 1..Len(call.ret) :
                   j < k => \/ key(j)[1] < key(k)[1]
                            \/ key(j)[1] = key(k)[1] /\ key(j)[2] <= key(k)[2]]_vars

\* the step on which a repeated initialisation returns or raises
InitReturned == returned' # returned /\ returned'.op = "__init__"

(* C28: initialisation run on a store that an earlier initialisation has   *)
(* seeded completes without error and leaves one service per name, one     *)
(* master per name and one schedule row per master and date, the bookings  *)
(* unchanged.                                                              *)
C28_InitRepeatable ==
    [][InitReturned =>
          /\ ~returned'.raised
          /\ UniqueNames(services')
          /\ UniqueNames(masters')
          /\ \A i, j \in Ids(schedule') :
                (schedule'[i].master_id = schedule'[j].master_id
                 /\ schedule'[i].date = schedule'[j].date) => i = j
          /\ bookings' = bookings]_vars

\* the step on which a call of caller p that met a failure of the store ends
FailedCallEnds(p) ==
    /\ pc'[p] = "idle"
    /\ \/ pc[p] \in ExceptStates
       \/ pc[p] = "add_commit" /\ "raised" \in DOMAIN returned'

(* C26: a create_booking, cancel_booking or add_client during which the    *)
(* store fails returns the failure result (None from add_client, False     *)
(* from the others), and neither the failing statement nor the rest of the *)
(* call changes the bookings: the rows and their statuses stay as they     *)
(* were.                                                                   *)
C26_StoreFailureReturnsFailure ==
    [][\A p \in Callers :
          /\ (pc[p] \notin ExceptStates /\ pc'[p] \in ExceptStates) => bookings' = bookings
          /\ FailedCallEnds(p) =>
                /\ "ret" \in DOMAIN returned'
                /\ returned'.ret = (IF returned'.op = "add_client" THEN None ELSE FALSE)
                /\ bookings' = bookings]_vars

=============================================================================
